---- MODULE Spec2Model ----
(***************************************************************************)
(* Model of server.js, the Alipay cashier simulator: two in-memory Maps    *)
(* (orders, payments), six Express routes, and the setTimeout callbacks    *)
(* that answer them.  Node runs every handler and every timer callback to  *)
(* completion on one thread, so each of them is one atomic action here.    *)
(*                                                                         *)
(* Time is Date.now() in milliseconds.  A timer set with delay d at clock  *)
(* value t may fire at any clock value >= t + d (never early, possibly     *)
(* late when the event loop is busy).  The wall clock is taken to be       *)
(* monotonic.                                                              *)
(*                                                                         *)
(* Order objects live in `heap`; `orders` maps an orderId to the object    *)
(* stored under it, and a timer closure holds the object it looked up      *)
(* (`const order = orders.get(orderId)`), not the id.                      *)
(*                                                                         *)
(* Non-ASCII string literals of the source (bankName, the default          *)
(* subject, the messages) are replaced by ASCII stand-ins; the response    *)
(* `message` field is constant per branch and is left out.                 *)
(***************************************************************************)
EXTENDS Integers, Sequences, FiniteSets, TLC

VARIABLES
    clock,      \* Date.now(), ms
    heap,       \* order objects, by identity (index)
    orders,     \* Map orderId -> order object (index into heap)
    payments,   \* Map paymentId -> payment record
    timers,     \* pending setTimeout closures
    resp,       \* the response sent by the last step that sent one
    nreq,       \* requests received so far
    created,    \* history: every payment record constructed, in order
    accepted    \* history: orderId -> validate requests received that pass the check

vars == <<clock, heap, orders, payments, timers, resp, nreq, created, accepted>>

----------------------------------------------------------------------------
\* Bounds of the model.
MaxReq    == 3      \* requests received
MaxOrders == 2      \* create requests among them

----------------------------------------------------------------------------
\* Program constants.
DefaultAmount   == 579
DefaultSubject  == "MX Master 3s"
DefaultBankCard == "****7061"
BankName        == "CCB"
ValidPassword   == "123456"

CreateDelayMin   == 50
CreateDelaySpan  == 150
InfoDelayMin     == 30
InfoDelaySpan    == 100
ValidateDelayMin == 100
ValidateDelaySpan == 400
QueryDelayMin    == 20
QueryDelaySpan   == 80

\* Math.random() * span + min lies in [min, min + span).  A timer may fire
\* late, so the shortest delay allows every completion order that a longer
\* one allows: the minimum is the sample.
DelaySamples(min, span) == {min}

----------------------------------------------------------------------------
\* Values.
None    == << >>            \* a request field that is not set (undefined)
Some(v) == << v >>
NoTime  == -1               \* payTime not present on the object

\* Request bodies of create: nothing set; fields set to truthy and to falsy
\* values.
Bodies ==
    { [amount |-> None,      subject |-> None,         bankCard |-> None],
      [amount |-> Some(100), subject |-> Some(""),     bankCard |-> Some("****1234")],
      [amount |-> Some(0),   subject |-> Some("book"), bankCard |-> Some("")] }
Passwords == {ValidPassword, "000000"}
\* Values of the random orderId suffix.  Suffixes are interchangeable, so a
\* draw is one of those already stored under this millisecond or one new one.
Rands == 1..(Cardinality({oid \in DOMAIN orders : oid[1] = clock}) + 1)
BogusId   == << -1, 0 >>    \* an orderId the generator never produces

\* (mutant) a write drops the other entries of the map
MapSetOnly(m, k, v) == [x \in {k} |-> v]

\* Map helpers (Map.set / Map.get / Map.size).
MapSet(m, k, v) == [x \in (DOMAIN m) \cup {k} |-> IF x = k THEN v ELSE m[x]]
MapHas(m, k)    == k \in DOMAIN m
MapSize(m)      == Cardinality(DOMAIN m)

\* `ORDER${Date.now()}${Math.random().toString(36).substr(2, 9)}`: the
\* timestamp has a fixed width, so the string is determined by, and
\* determines, the pair (time, random suffix).
generateOrderId(t, r) == << t, r >>

\* `PAY${Date.now()}`
newPaymentId(t) == << "PAY", t >>

\* x || d for a number / a string field: undefined, 0 and "" are falsy.
OrDefaultNum(x, d) == IF x = None \/ x = Some(0) THEN d ELSE x[1]
OrDefaultStr(x, d) == IF x = None \/ x = Some("") THEN d ELSE x[1]

NewOrder(oid, amount, subject, bankCard, now) ==
    [ orderId    |-> oid,
      amount     |-> OrDefaultNum(amount, DefaultAmount),
      subject    |-> OrDefaultStr(subject, DefaultSubject),
      bankCard   |-> OrDefaultStr(bankCard, DefaultBankCard),
      bankName   |-> BankName,
      status     |-> "pending",
      createTime |-> now,
      payTime    |-> NoTime ]

\* (mutant) any non-empty password passes
isValidPasswordLoose(password) == password # ""

\* password === '123456'
isValidPassword(password) == password = ValidPassword

\* (mutant) && for ||
RejectedOnlyBoth(randomFail, valid) == randomFail /\ ~valid

\* if (randomFail || !isValidPassword)
Rejected(randomFail, valid) == randomFail \/ ~valid

\* (mutant) a rejection is recorded on the order
MarkFailed(order) == [order EXCEPT !.status = "failed"]

\* The rejection branch does not touch the order object.
RejectedOrder(order) == order

\* (mutant) payTime is not set
SettleStatusOnly(order, now) == [order EXCEPT !.status = "success"]

\* (mutant) the settlement also stamps createTime
SettleResetsCreateTime(order, now) ==
    [order EXCEPT !.status = "success", !.payTime = now, !.createTime = now]

\* (mutant) payTime is set and the status is left as it was
SettlePayTimeOnly(order, now) == [order EXCEPT !.payTime = now]

\* (mutant) a settled order keeps its first payTime
SettleKeepFirstPayTime(order, now) ==
    IF order.status = "success"
    THEN order
    ELSE [order EXCEPT !.status = "success", !.payTime = now]

\* The settlement of an order object: status and payTime, nothing else.
\* (new Date() there and Date.now() in the paymentId are taken as one reading
\* of the clock.)
Settle(order, now) == [order EXCEPT !.status = "success", !.payTime = now]

\* (mutant) the payment carries the default amount, not the order's
NewPaymentDefaultAmount(oid, order, now) ==
    [ paymentId |-> newPaymentId(now),
      orderId   |-> oid,
      amount    |-> DefaultAmount,
      status    |-> "success",
      payTime   |-> order.payTime ]

NewPayment(oid, order, now) ==
    [ paymentId |-> newPaymentId(now),
      orderId   |-> oid,
      amount    |-> order.amount,
      status    |-> "success",
      payTime   |-> order.payTime ]

\* (mutant) the projection leaves payTime out
QueryDataNoPayTime(order) ==
    [ orderId |-> order.orderId,
      status  |-> order.status,
      amount  |-> order.amount,
      payTime |-> NoTime ]

\* The projection the query route returns.
QueryData(order) ==
    [ orderId |-> order.orderId,
      status  |-> order.status,
      amount  |-> order.amount,
      payTime |-> order.payTime ]

\* Response bodies.
NullData == [null |-> TRUE]         \* data: null
NoData   == [absent |-> TRUE]       \* no data field

NoBody == [amount |-> None, subject |-> None, bankCard |-> None]

\* A request: its identity and what the client sent.
Request(id, kind, oid, body, password) ==
    [id |-> id, kind |-> kind, orderId |-> oid, body |-> body, password |-> password]

\* A response, with the request it answers (res.req).
Response(req, http, success, code, data) ==
    [req |-> req, http |-> http, success |-> success, code |-> code, data |-> data]

\* res.json(...) answers with HTTP 200
SuccessResponse(req, data) == Response(req, 200, TRUE, 0, data)

\* (mutant) .status(404) is missing
NotFoundAs200(req) == Response(req, 200, FALSE, 404, NoData)

\* res.status(404).json({success: false, code: 404, message})
NotFoundResponse(req) == Response(req, 404, FALSE, 404, NoData)

\* (mutant) the rejection branch sends nothing: the last response stands
NoRejectionResponse(req) == resp

\* (mutant) the rejection is sent as an HTTP error
RejectionAsError(req) == Response(req, 401, FALSE, 1001, NullData)

\* res.json({success: false, code: 1001, message, data: null})
RejectionResponse(req) == Response(req, 200, FALSE, 1001, NullData)

\* A pending timer: the callback's closure.
Timer(req, due, obj, valid, randomFail) ==
    [req |-> req, due |-> due, obj |-> obj, valid |-> valid, randomFail |-> randomFail]

\* The orderIds a client sends: the stored ones and one that is unknown.
RequestIds == (DOMAIN orders) \cup {BogusId}

\* History: validate requests received, per orderId, that pass both checks.
Count(h, oid) == IF oid \in DOMAIN h THEN h[oid] ELSE 0
Bump(h, oid)  == MapSet(h, oid, Count(h, oid) + 1)
PassesChecks(password, randomFail) == password = ValidPassword /\ ~randomFail

\* (mutant) callbacks run in the order of arrival: a timer waits for every
\* timer of an earlier request
CanFireInOrder(tm) ==
    /\ clock >= tm.due
    /\ \A other \in timers : other.req.id >= tm.req.id

\* setTimeout: the callback can run once its delay has elapsed, whatever
\* other timers are pending.
CanFire(tm) == clock >= tm.due

----------------------------------------------------------------------------
Init ==
    /\ clock = 0
    /\ heap = << >>
    /\ orders = << >>
    /\ payments = << >>
    /\ timers = {}
    /\ resp = Response(Request(0, "none", BogusId, NoBody, ""), 0, FALSE, 0, NoData)
    /\ nreq = 0
    /\ created = << >>
    /\ accepted = << >>

\* Time passes, up to the deadline of a pending timer.
Tick ==
    /\ \E tm \in timers : tm.due > clock /\ clock' = tm.due
    /\ UNCHANGED <<heap, orders, payments, timers, resp, nreq, created, accepted>>

\* POST /api/payment/create
CreateOrder(body, r, d) ==
    /\ nreq < MaxReq
    /\ Len(heap) < MaxOrders
    /\ LET oid == generateOrderId(clock, r)
           ref == Len(heap) + 1
           req == Request(nreq + 1, "create", oid, body, "")
       IN /\ heap' = Append(heap, NewOrder(oid, body.amount, body.subject, body.bankCard, clock))
          /\ orders' = MapSet(orders, oid, ref)
          /\ timers' = timers \cup {Timer(req, clock + d, ref, FALSE, FALSE)}
    /\ nreq' = nreq + 1
    /\ UNCHANGED <<clock, payments, resp, created, accepted>>

\* the create route's timer callback
CreateDone(tm) ==
    /\ tm \in timers /\ tm.req.kind = "create" /\ CanFire(tm)
    /\ resp' = SuccessResponse(tm.req, heap[tm.obj])
    /\ timers' = timers \ {tm}
    /\ UNCHANGED <<clock, heap, orders, payments, nreq, created, accepted>>

\* GET /api/payment/info/:orderId
GetOrderInfo(oid, d) ==
    /\ nreq < MaxReq
    /\ nreq' = nreq + 1
    /\ LET req == Request(nreq + 1, "info", oid, NoBody, "")
       IN IF ~MapHas(orders, oid)
          THEN /\ resp' = NotFoundResponse(req)
               /\ UNCHANGED timers
          ELSE /\ timers' = timers \cup {Timer(req, clock + d, orders[oid], FALSE, FALSE)}
               /\ UNCHANGED resp
    /\ UNCHANGED <<clock, heap, orders, payments, created, accepted>>

\* the info route's timer callback
InfoDone(tm) ==
    /\ tm \in timers /\ tm.req.kind = "info" /\ CanFire(tm)
    /\ resp' = SuccessResponse(tm.req, heap[tm.obj])
    /\ timers' = timers \ {tm}
    /\ UNCHANGED <<clock, heap, orders, payments, nreq, created, accepted>>

\* POST /api/payment/validate
ValidateCredential(oid, password, randomFail, d) ==
    /\ nreq < MaxReq
    /\ nreq' = nreq + 1
    /\ LET req == Request(nreq + 1, "validate", oid, NoBody, password)
       IN IF ~MapHas(orders, oid)
          THEN /\ resp' = NotFoundResponse(req)
               /\ UNCHANGED <<timers, accepted>>
          ELSE /\ timers' = timers \cup
                      {Timer(req, clock + d, orders[oid], isValidPassword(password), randomFail)}
               /\ accepted' = IF PassesChecks(password, randomFail)
                              THEN Bump(accepted, oid) ELSE accepted
               /\ UNCHANGED resp
    /\ UNCHANGED <<clock, heap, orders, payments, created>>

\* the validate route's timer callback
ValidateDone(tm) ==
    /\ tm \in timers /\ tm.req.kind = "validate" /\ CanFire(tm)
    /\ timers' = timers \ {tm}
    /\ IF Rejected(tm.randomFail, tm.valid)
       THEN /\ resp' = RejectionResponse(tm.req)
            /\ heap' = [heap EXCEPT ![tm.obj] = RejectedOrder(@)]
            /\ UNCHANGED <<payments, created>>
       ELSE LET order == Settle(heap[tm.obj], clock)
                payment == NewPayment(tm.req.orderId, order, clock)
            IN /\ heap' = [heap EXCEPT ![tm.obj] = order]
               /\ payments' = MapSet(payments, payment.paymentId, payment)
               /\ created' = Append(created, payment)
               /\ resp' = SuccessResponse(tm.req, payment)
    /\ UNCHANGED <<clock, orders, nreq, accepted>>

\* GET /api/payment/query/:orderId
QueryResult(oid, d) ==
    /\ nreq < MaxReq
    /\ nreq' = nreq + 1
    /\ LET req == Request(nreq + 1, "query", oid, NoBody, "")
       IN IF ~MapHas(orders, oid)
          THEN /\ resp' = NotFoundResponse(req)
               /\ UNCHANGED timers
          ELSE /\ timers' = timers \cup {Timer(req, clock + d, orders[oid], FALSE, FALSE)}
               /\ UNCHANGED resp
    /\ UNCHANGED <<clock, heap, orders, payments, created, accepted>>

\* the query route's timer callback
QueryDone(tm) ==
    /\ tm \in timers /\ tm.req.kind = "query" /\ CanFire(tm)
    /\ resp' = SuccessResponse(tm.req, QueryData(heap[tm.obj]))
    /\ timers' = timers \ {tm}
    /\ UNCHANGED <<clock, heap, orders, payments, nreq, created, accepted>>

\* GET /api/stats.  successRate = payments.size / Math.max(orders.size, 1) is
\* kept as the pair numerator, denominator.
Max(a, b) == IF a >= b THEN a ELSE b

\* (mutant) the success rate divides by the order count without the guard
StatsDataNoGuard ==
    [ totalOrders   |-> MapSize(orders),
      totalPayments |-> MapSize(payments),
      successRate   |-> << MapSize(payments), MapSize(orders) >> ]

StatsData ==
    [ totalOrders   |-> MapSize(orders),
      totalPayments |-> MapSize(payments),
      successRate   |-> << MapSize(payments), Max(MapSize(orders), 1) >> ]

\* res.json(stats): HTTP 200, the bare object (no envelope)
Stats ==
    /\ nreq < MaxReq
    /\ nreq' = nreq + 1
    /\ resp' = Response(Request(nreq + 1, "stats", BogusId, NoBody, ""), 200, TRUE, 0, StatsData)
    /\ UNCHANGED <<clock, heap, orders, payments, timers, created, accepted>>

Next ==
    \/ Tick
    \/ \E body \in Bodies, r \in Rands,
          d \in DelaySamples(CreateDelayMin, CreateDelaySpan) :
          CreateOrder(body, r, d)
    \/ \E oid \in RequestIds, d \in DelaySamples(InfoDelayMin, InfoDelaySpan) :
          GetOrderInfo(oid, d)
    \/ \E oid \in RequestIds, p \in Passwords, f \in BOOLEAN,
          d \in DelaySamples(ValidateDelayMin, ValidateDelaySpan) :
          ValidateCredential(oid, p, f, d)
    \/ \E oid \in RequestIds, d \in DelaySamples(QueryDelayMin, QueryDelaySpan) :
          QueryResult(oid, d)
    \/ Stats
    \/ \E tm \in timers : CreateDone(tm)
    \/ \E tm \in timers : InfoDone(tm)
    \/ \E tm \in timers : ValidateDone(tm)
    \/ \E tm \in timers : QueryDone(tm)

Spec == Init /\ [][Next]_vars

\* The callback of request id runs.
TimerFires(id) ==
    \E tm \in timers :
        /\ tm.req.id = id
        /\ (CreateDone(tm) \/ InfoDone(tm) \/ ValidateDone(tm) \/ QueryDone(tm))

\* Time passes and every scheduled timer eventually fires.
FairSpec ==
    /\ Spec
    /\ WF_vars(Tick)
    /\ \A id \in 1..MaxReq : WF_vars(TimerFires(id))

----------------------------------------------------------------------------
\* Helpers of the properties.

\* The record the order store holds under an orderId.
StoredOrder(oid) == heap[orders[oid]]

\* How many payment records were ever constructed with an orderId.
PaymentsCreatedFor(oid) == Cardinality({i \in DOMAIN created : created[i].orderId = oid})

\* This step runs the validate callback of timer tm.
ValidateFires(tm) == tm \in timers /\ tm \notin timers' /\ tm.req.kind = "validate"

\* This step runs the info or query callback of timer tm.
ReadFires(tm) == tm \in timers /\ tm \notin timers' /\ tm.req.kind \in {"info", "query"}

----------------------------------------------------------------------------
\* C1: in every reachable state, every order in the order store has a
\* payTime if and only if its status is success.
C1_PayTimeIffSuccess ==
    \A oid \in DOMAIN orders :
        (StoredOrder(oid).payTime # NoTime) <=> (StoredOrder(oid).status = "success")

\* C1 witness: a settled order is in the store, with its payTime.
C1_Witness ==
    \E oid \in DOMAIN orders :
        StoredOrder(oid).status = "success" /\ StoredOrder(oid).payTime # NoTime

\* C2 (as claimed): a payment referencing an order is stored if and only if
\* that order is stored with status success.
C2_PaymentIffSuccess ==
    /\ \A pid \in DOMAIN payments :
          /\ payments[pid].orderId \in DOMAIN orders
          /\ StoredOrder(payments[pid].orderId).status = "success"
    /\ \A oid \in DOMAIN orders :
          StoredOrder(oid).status = "success" =>
              \E pid \in DOMAIN payments : payments[pid].orderId = oid

\* C3 (as claimed): for every orderId, at most one payment record is ever
\* created with it.
C3_AtMostOnePaymentPerOrder ==
    \A oid \in DOMAIN orders : PaymentsCreatedFor(oid) <= 1

\* C3 (amended): for every orderId, the number of payment records created
\* with it never exceeds the number of validate calls received for it that
\* pass both checks.
C3_PaymentsWithinAcceptedCalls ==
    \A oid \in DOMAIN orders : PaymentsCreatedFor(oid) <= Count(accepted, oid)

\* C3 witness: two accepted validate calls on one order have completed and
\* the payment store holds two records that reference it.
C3_Witness ==
    \E oid \in DOMAIN orders :
        /\ PaymentsCreatedFor(oid) = 2
        /\ Cardinality({pid \in DOMAIN payments : payments[pid].orderId = oid}) = 2

\* C4: no step removes an orderId from the order store, the status stored
\* under an orderId is pending or success and changes only from pending to
\* success, and no order object ever leaves success.
C4_SuccessIsTerminal ==
    [][ /\ \A oid \in DOMAIN orders :
              /\ oid \in DOMAIN orders'
              /\ LET before == heap[orders[oid]].status
                     after  == heap'[orders'[oid]].status
                 IN /\ after \in {"pending", "success"}
                    /\ before = "success" => after = "success"
                    /\ before # after => (before = "pending" /\ after = "success")
        /\ \A i \in DOMAIN heap :
              /\ i \in DOMAIN heap'
              /\ heap[i].status = "success" => heap'[i].status = "success" ]_vars

\* C4 witness: the only order is success and the last response is a
\* rejected validate, which therefore completed after the settlement.
C4_Witness ==
    /\ Len(heap) = 1
    /\ heap[1].status = "success"
    /\ resp.req.kind = "validate" /\ resp.code = 1001

\* C5: the validate callback accepts exactly when the password is "123456"
\* and the random failure did not trigger; otherwise it changes no order and
\* creates no payment.
C5_AcceptedIffPasswordAndNoFailure ==
    [][ \A tm \in timers : ValidateFires(tm) =>
          LET ok == tm.req.password = ValidPassword /\ ~tm.randomFail
          IN /\ resp'.req = tm.req
             /\ resp'.success <=> ok
             /\ ok => /\ heap'[tm.obj].status = "success"
                      /\ Len(created') = Len(created) + 1
             /\ ~ok => /\ heap' = heap
                       /\ payments' = payments
                       /\ created' = created ]_vars

\* C5 witness: a validate with another password was answered, rejected,
\* and nothing is settled.
C5_Witness ==
    /\ resp.req.kind = "validate"
    /\ resp.req.password # ValidPassword
    /\ resp.req.orderId \in DOMAIN orders
    /\ ~resp.success
    /\ \A i \in DOMAIN heap : heap[i].status = "pending"
    /\ payments = << >>

\* C6 (as claimed): the completion of an accepted validate sets the order
\* to success with a payTime, and the payment store gains exactly one new
\* record, replacing none, that references the order, carries its amount
\* and payTime, and is the data returned.
C6_AcceptedAddsOnePayment ==
    [][ \A tm \in timers :
          (ValidateFires(tm) /\ tm.req.password = ValidPassword /\ ~tm.randomFail) =>
             /\ heap'[tm.obj].status = "success"
             /\ heap'[tm.obj].payTime # NoTime
             /\ MapSize(payments') = MapSize(payments) + 1
             /\ \A pid \in DOMAIN payments :
                   pid \in DOMAIN payments' /\ payments'[pid] = payments[pid]
             /\ \E pid \in (DOMAIN payments') \ (DOMAIN payments) :
                   /\ payments'[pid].orderId = tm.req.orderId
                   /\ payments'[pid].amount = heap'[tm.obj].amount
                   /\ payments'[pid].payTime = heap'[tm.obj].payTime
                   /\ resp'.data = payments'[pid] ]_vars

\* C7: the completion of a rejected validate leaves the order objects, the
\* order store and the payment store as they were, creates no payment, and
\* answers HTTP 200, success false, code 1001, data null; the order is still
\* in the store.
C7_RejectionChangesNothing ==
    [][ \A tm \in timers :
          (ValidateFires(tm) /\ (tm.req.password # ValidPassword \/ tm.randomFail)) =>
             /\ heap' = heap
             /\ orders' = orders
             /\ payments' = payments
             /\ created' = created
             /\ resp' = [req |-> tm.req, http |-> 200, success |-> FALSE,
                         code |-> 1001, data |-> NullData]
             /\ tm.req.orderId \in DOMAIN orders' ]_vars

\* C7 witness: a validate on a stored order was answered with code 1001 and
\* the order is pending.
C7_Witness ==
    /\ resp.req.kind = "validate"
    /\ resp.code = 1001
    /\ resp.req.orderId \in DOMAIN orders
    /\ StoredOrder(resp.req.orderId).status = "pending"

\* C8: no timer is ever scheduled for an info, query or validate request
\* whose orderId is not in the store; such a request is answered in the
\* step that receives it, with HTTP 404 and code 404, and that step changes
\* neither store and draws nothing.
C8_UnknownOrderIsNotFound ==
    [][ /\ \A tm \in timers' \ timers :
              tm.req.kind \in {"info", "query", "validate"} =>
                  tm.req.orderId \in DOMAIN orders
        /\ (nreq' = nreq + 1 /\ timers' = timers /\ resp'.req.kind # "stats") =>
              /\ resp'.req.id = nreq'
              /\ resp'.req.kind \in {"info", "query", "validate"}
              /\ resp'.req.orderId \notin DOMAIN orders
              /\ resp'.http = 404 /\ resp'.code = 404 /\ ~resp'.success
              /\ resp'.data = NoData
              /\ heap' = heap /\ orders' = orders /\ payments' = payments
              /\ created' = created /\ accepted' = accepted ]_vars

\* C8 witness: a validate with the right password on an unknown orderId was
\* answered 404 while the store holds an order.
C8_Witness ==
    /\ resp.req.kind = "validate"
    /\ resp.req.password = ValidPassword
    /\ resp.http = 404 /\ resp.code = 404
    /\ DOMAIN orders # {}
    /\ timers = {}

\* C9 (as claimed): no two orders ever created share an orderId, no two
\* payments ever created share a paymentId, and so no store write has
\* replaced a record.
C9_IdentifiersUnique ==
    /\ \A i, j \in DOMAIN heap : i # j => heap[i].orderId # heap[j].orderId
    /\ \A i, j \in DOMAIN created : i # j => created[i].paymentId # created[j].paymentId
    /\ MapSize(orders) = Len(heap)
    /\ MapSize(payments) = Len(created)

\* C10 (as claimed): the order in a create response is pending with no
\* payTime, each of amount, subject and bankCard is the supplied value, or
\* the default when none was supplied, and the store holds a record under
\* the returned orderId; the response is a success.
C10_CreateResponse ==
    LET Supplied(x, d) == IF x = None THEN d ELSE x[1]
    IN resp.req.kind = "create" =>
        /\ resp.http = 200 /\ resp.success /\ resp.code = 0
        /\ resp.data.status = "pending"
        /\ resp.data.payTime = NoTime
        /\ resp.data.amount = Supplied(resp.req.body.amount, DefaultAmount)
        /\ resp.data.subject = Supplied(resp.req.body.subject, DefaultSubject)
        /\ resp.data.bankCard = Supplied(resp.req.body.bankCard, DefaultBankCard)
        /\ resp.data.orderId \in DOMAIN orders

\* No two orders ever created share an orderId.
NoOrderIdCollision ==
    \A i, j \in DOMAIN heap : i # j => heap[i].orderId # heap[j].orderId

\* C11 (as claimed), in the states where orderIds are unique: every stored
\* payment's payTime and amount equal those of the order stored under its
\* orderId.
C11_PaymentMatchesOrder ==
    NoOrderIdCollision =>
        \A pid \in DOMAIN payments :
            /\ payments[pid].orderId \in DOMAIN orders
            /\ payments[pid].payTime = StoredOrder(payments[pid].orderId).payTime
            /\ payments[pid].amount = StoredOrder(payments[pid].orderId).amount

\* C11 (amended): every stored payment was made for a success order with
\* its orderId and its amount, its payTime is present and is at most that
\* order's payTime, and the payment a settlement stores carries exactly the
\* payTime and the amount that the settlement leaves on the order.
C11_PaymentMatchesOrderAtSettlement ==
    /\ [](\A pid \in DOMAIN payments :
             /\ payments[pid].payTime # NoTime
             /\ \E i \in DOMAIN heap :
                   /\ heap[i].orderId = payments[pid].orderId
                   /\ heap[i].status = "success"
                   /\ heap[i].amount = payments[pid].amount
                   /\ payments[pid].payTime <= heap[i].payTime)
    /\ [][ \A tm \in timers :
             (ValidateFires(tm) /\ resp'.success) =>
                \E pid \in DOMAIN payments' :
                   /\ payments'[pid] = resp'.data
                   /\ payments'[pid].payTime = heap'[tm.obj].payTime
                   /\ payments'[pid].amount = heap'[tm.obj].amount ]_vars

\* C11 witness: a stored payment is older than the payTime of its order,
\* which a later accepted validate has overwritten.
C11_Witness ==
    \E pid \in DOMAIN payments :
        /\ payments[pid].orderId \in DOMAIN orders
        /\ StoredOrder(payments[pid].orderId).amount = 100
        /\ payments[pid].amount = 100
        /\ payments[pid].payTime < StoredOrder(payments[pid].orderId).payTime

\* C12: a stats request is answered at once with HTTP 200, totalOrders the
\* size of the order store, totalPayments the size of the payment store and
\* successRate the quotient totalPayments / max(totalOrders, 1) (numerator
\* and a non-zero denominator; 0 over 1 when there is no order); it changes
\* no store, no order and no pending timer, and it can be served in every
\* state, also while other requests wait in their delay.
C12_StatsReportsStoreSizes ==
    /\ [][ (nreq' = nreq + 1 /\ resp'.req.kind = "stats" /\ resp'.req.id = nreq') =>
             /\ resp'.http = 200 /\ resp'.success
             /\ resp'.data.totalOrders = Cardinality(DOMAIN orders)
             /\ resp'.data.totalPayments = Cardinality(DOMAIN payments)
             /\ resp'.data.successRate[1] = Cardinality(DOMAIN payments)
             /\ resp'.data.successRate[2] =
                   (IF Cardinality(DOMAIN orders) = 0
                    THEN 1 ELSE Cardinality(DOMAIN orders))
             /\ resp'.data.successRate[2] # 0
             /\ (Cardinality(DOMAIN orders) = 0 => resp'.data.successRate[1] = 0)
             /\ UNCHANGED <<heap, orders, payments, timers, created, accepted>> ]_vars
    /\ [](nreq < MaxReq => ENABLED Stats)

\* C12 witness: stats answered with one order and one payment while another
\* request is still in its delay.
C12_Witness ==
    /\ resp.req.kind = "stats"
    /\ resp.data.totalOrders = 1
    /\ resp.data.totalPayments = 1
    /\ timers # {}

\* C13: an accepted validate that completes leaves its order success with a
\* payTime; the order stays so in every later step; and every info or query
\* response sent for an order in that condition reports status success and
\* the order's payTime, whenever the request arrived (its delay may have
\* started before the settlement).
C13_ReadsAfterSettlementSeeSuccess ==
    /\ [][ \A tm \in timers :
             (ValidateFires(tm) /\ PassesChecks(tm.req.password, tm.randomFail)) =>
                /\ heap'[tm.obj].status = "success"
                /\ heap'[tm.obj].payTime # NoTime ]_vars
    /\ [][ \A i \in DOMAIN heap :
             heap[i].status = "success" =>
                /\ heap'[i].status = "success"
                /\ heap'[i].payTime # NoTime ]_vars
    /\ [][ \A tm \in timers :
             (ReadFires(tm) /\ heap[tm.obj].status = "success") =>
                /\ resp'.req = tm.req
                /\ resp'.http = 200 /\ resp'.success
                /\ resp'.data.status = "success"
                /\ resp'.data.payTime # NoTime
                /\ resp'.data.payTime = heap[tm.obj].payTime ]_vars

\* C13 witness: a query that arrived before the validate request is answered
\* after the settlement and reports success with the payTime.
C13_Witness ==
    /\ nreq = 3 /\ Len(heap) = 1 /\ Len(created) = 1
    /\ resp.req.kind = "query" /\ resp.req.id = 2
    /\ resp.data.status = "success"
    /\ resp.data.payTime = created[1].payTime

\* C14: a validate with password "123456" and no random failure whose order
\* is already success when its callback runs is accepted again: it answers
\* 200 with a new payment for that orderId, one more payment is created,
\* the order stays success and its payTime is overwritten with the time of
\* this callback.
C14_ValidateOnSuccessSettlesAgain ==
    [][ \A tm \in timers :
          ( /\ ValidateFires(tm)
            /\ heap[tm.obj].status = "success"
            /\ tm.req.password = ValidPassword
            /\ ~tm.randomFail ) =>
             /\ resp'.req = tm.req
             /\ resp'.http = 200 /\ resp'.success
             /\ Len(created') = Len(created) + 1
             /\ created'[Len(created')].orderId = tm.req.orderId
             /\ resp'.data = created'[Len(created')]
             /\ resp'.data.paymentId \in DOMAIN payments'
             /\ heap'[tm.obj].status = "success"
             /\ heap'[tm.obj].payTime = clock
             /\ resp'.data.payTime = clock ]_vars

\* C14 witness: two payments were created for one order, the second later
\* than the first, and the order carries the second payTime.
C14_Witness ==
    /\ Len(created) = 2 /\ Len(heap) = 1
    /\ created[1].orderId = created[2].orderId
    /\ created[1].payTime < created[2].payTime
    /\ heap[1].status = "success"
    /\ heap[1].payTime = created[2].payTime

\* C15: validate calls never change which order an orderId names, a validate
\* timer holds the order that its orderId named at arrival, and, while that
\* is still the order the orderId names (always so when only validate calls
\* interleave), the step of its callback equals one indivisible
\* lookup-check-mutate performed at that moment on the current state: with
\* the right password and no random failure the order found under the
\* orderId becomes success with payTime now and the payment store is the
\* old one with the new payment written, otherwise nothing changes; every
\* other order and every other payment is kept, so no update of an
\* interleaved call is lost.
C15_ValidateIsAtomicPerOrder ==
    /\ [][ \A tm \in timers' :
             (tm.req.kind = "validate" /\ tm \notin timers) =>
                /\ tm.req.orderId \in DOMAIN orders
                /\ tm.obj = orders[tm.req.orderId]
                /\ orders' = orders /\ heap' = heap /\ payments' = payments ]_vars
    /\ [][ \A tm \in timers :
             ( /\ ValidateFires(tm)
               /\ tm.req.orderId \in DOMAIN orders
               /\ orders[tm.req.orderId] = tm.obj ) =>
                LET oid    == tm.req.orderId
                    order  == heap[orders[oid]]
                    accept == tm.req.password = ValidPassword /\ ~tm.randomFail
                    pid    == << "PAY", clock >>
                    after  == [ orderId    |-> order.orderId,
                                amount     |-> order.amount,
                                subject    |-> order.subject,
                                bankCard   |-> order.bankCard,
                                bankName   |-> order.bankName,
                                status     |-> "success",
                                createTime |-> order.createTime,
                                payTime    |-> clock ]
                    pay    == [ paymentId |-> pid,
                                orderId   |-> oid,
                                amount    |-> order.amount,
                                status    |-> "success",
                                payTime   |-> clock ]
                IN /\ orders' = orders
                   /\ accept =>
                        /\ heap' = [i \in DOMAIN heap |->
                                      IF i = orders[oid] THEN after ELSE heap[i]]
                        /\ payments' = [k \in (DOMAIN payments) \cup {pid} |->
                                          IF k = pid THEN pay ELSE payments[k]]
                   /\ ~accept => (heap' = heap /\ payments' = payments) ]_vars

\* C15 witness: two accepted validate calls on one order were in their
\* delays together and both have completed, the second later than the first.
C15_Witness ==
    /\ timers = {} /\ nreq = 3 /\ Len(heap) = 1 /\ Len(created) = 2
    /\ created[1].orderId = heap[1].orderId
    /\ created[2].orderId = heap[1].orderId
    /\ created[2].payTime - created[1].payTime < ValidateDelayMin
    /\ created[1].payTime < created[2].payTime
    /\ Cardinality(DOMAIN payments) = 2

\* C16: every order record that a create or info callback returns is the
\* whole record of its order in the state in which the callback runs, every
\* projection that a query callback returns is taken from that one record,
\* the callback does not change the record, and what is returned is either
\* pending without payTime or success with the order's payTime, also when a
\* validate on the same order completed during the reader's delay.
C16_NoTornReads ==
    [][ \A tm \in timers :
          (tm \notin timers' /\ tm.req.kind \in {"create", "info", "query"}) =>
             /\ resp'.req = tm.req
             /\ heap' = heap
             /\ tm.req.kind \in {"create", "info"} => resp'.data = heap[tm.obj]
             /\ tm.req.kind = "query" =>
                   /\ resp'.data.orderId = heap[tm.obj].orderId
                   /\ resp'.data.status = heap[tm.obj].status
                   /\ resp'.data.amount = heap[tm.obj].amount
                   /\ resp'.data.payTime = heap[tm.obj].payTime
             /\ \/ resp'.data.status = "pending" /\ resp'.data.payTime = NoTime
                \/ /\ resp'.data.status = "success"
                   /\ resp'.data.payTime # NoTime
                   /\ \E k \in DOMAIN created :
                         /\ created[k].orderId = resp'.data.orderId
                         /\ created[k].payTime = resp'.data.payTime ]_vars

\* C16 witness: an info request that arrived before the validate request is
\* answered after the settlement with the settled record.
C16_Witness ==
    /\ nreq = 3 /\ Len(heap) = 1 /\ Len(created) = 1
    /\ resp.req.kind = "info" /\ resp.req.id = 2
    /\ resp.data = heap[1]
    /\ resp.data.status = "success"
    /\ resp.data.payTime = created[1].payTime

\* C17: in every state, with any number of delays pending, the server can
\* receive a request of every kind, and every timer whose delay has elapsed
\* can run its callback whatever other timers are pending; receiving a
\* request leaves the pending timers as they are, and a callback removes
\* only its own timer.
C17_DelaysDoNotBlock ==
    /\ [](nreq < MaxReq =>
            /\ ENABLED Stats
            /\ \A oid \in RequestIds :
                  /\ ENABLED GetOrderInfo(oid, InfoDelayMin)
                  /\ ENABLED QueryResult(oid, QueryDelayMin)
                  /\ ENABLED ValidateCredential(oid, ValidPassword, FALSE, ValidateDelayMin)
            /\ Len(heap) < MaxOrders =>
                  ENABLED CreateOrder(NoBody, 1, CreateDelayMin))
    /\ [](\A tm \in timers :
            clock >= tm.due =>
               ENABLED (CreateDone(tm) \/ InfoDone(tm) \/ ValidateDone(tm) \/ QueryDone(tm)))
    /\ [][ /\ nreq' = nreq + 1 => timers \subseteq timers'
           /\ timers' # timers =>
                 \/ \E tm \in timers' : timers' = timers \cup {tm} /\ tm.req.id = nreq'
                 \/ \E tm \in timers : timers' = timers \ {tm} /\ resp'.req = tm.req ]_vars

\* C17 witness: a request has been answered with 200 by its callback while
\* the timer of a request that arrived earlier is still pending.
C17_Witness ==
    \E tm \in timers :
        /\ tm.req.id < resp.req.id
        /\ resp.http = 200
        /\ resp.req.kind \in {"info", "query"}
        /\ tm.req.kind = "validate"

\* C18: every order, once created, keeps its orderId, amount, subject,
\* bankCard, bankName and createTime in every step; a step that changes an
\* existing order is the callback of a validate request, it changes only
\* the order which that request named, and of that order only status and
\* payTime; every other step leaves every existing order as it is (a create
\* only adds its new order).
C18_OrderFieldsImmutable ==
    [][ /\ Len(heap') >= Len(heap)
        /\ \A i \in DOMAIN heap :
              /\ heap'[i].orderId = heap[i].orderId
              /\ heap'[i].amount = heap[i].amount
              /\ heap'[i].subject = heap[i].subject
              /\ heap'[i].bankCard = heap[i].bankCard
              /\ heap'[i].bankName = heap[i].bankName
              /\ heap'[i].createTime = heap[i].createTime
              /\ heap'[i] # heap[i] =>
                    \E tm \in timers :
                       /\ ValidateFires(tm)
                       /\ tm.obj = i
                       /\ heap[i].orderId = tm.req.orderId
                       /\ resp'.req = tm.req
                       /\ \A j \in DOMAIN heap : j # i => heap'[j] = heap[j] ]_vars

\* C18 witness: of two orders, the first, created with its own amount, has
\* been settled and the second is untouched.
C18_Witness ==
    /\ Len(heap) = 2 /\ Len(created) = 1
    /\ heap[1].orderId # heap[2].orderId
    /\ heap[1].status = "success"
    /\ heap[1].amount = 100
    /\ heap[1].createTime < heap[1].payTime
    /\ heap[2].status = "pending" /\ heap[2].payTime = NoTime

====
